---- MODULE Spec2Model ----
(***************************************************************************)
(* lgtm-gitlab: a webhook listener that counts "LGTM" comments per merge   *)
(* request and asks GitLab to accept the merge request once two have been  *)
(* seen.  The model follows src/main.go: one goroutine per inbound request *)
(* (LGTM -> checkLgtm -> acceptMergeRequest -> deferred response), the     *)
(* package-level lgtmCount map guarded by mutex, and the package-level     *)
(* glURL that acceptMergeRequest rewrites without any lock.                *)
(***************************************************************************)
EXTENDS Integers, Sequences, FiniteSets, TLC

\* ---------------------------------------------------------------- bounds
\* number of requests the server handles at the same time
NumHandlers == 2
\* number of requests the server receives in one run
MaxEvents == 3

Handlers == 1..NumHandlers

\* ------------------------------------------------------ program constants
ValidLGTMCount == 2
ObjectNote == "note"
NoteableTypeMergeRequest == "MergeRequest"
NoteLGTM == <<"L", "G", "T", "M">>
StatusCanbeMerged == "can_be_merged"
ErrInvalidRequest == "invalid request body"
ErrInvalidContentType == "invalid content type"
RespOK == "OK"
StatusOK == 200
StatusBadRequest == 400
StatusMethodNotAllowed == 405
StatusNotAcceptable == 406

\* --------------------------------------------------------------- strings
\* A note is a sequence of one-character strings.  strings.ToUpper maps the
\* lower-case letters to upper case and leaves every other character alone.
UpperOf(c) ==
    CASE c = "l" -> "L"
      [] c = "g" -> "G"
      [] c = "t" -> "T"
      [] c = "m" -> "M"
      [] c = "x" -> "X"
      [] OTHER -> c

ToUpper(s) == [i \in 1..Len(s) |-> UpperOf(s[i])]

\* ---------------------------------------------------------------- inputs
\* The fields of the JSON body that the program reads, with the zero value
\* encoding/json leaves in the Comment struct when the key is absent.
Fields == {"object_kind", "noteable_type", "note", "project_id",
           "id", "merge_status", "force_remove_source_branch"}

ZeroValue(f) ==
    CASE f \in {"project_id", "id"} -> 0
      [] f = "force_remove_source_branch" -> FALSE
      [] f = "note" -> <<>>
      [] OTHER -> ""

\* Comment: the struct json.Decode fills from a JSON object (a function from
\* the keys that are present to their values).
Comment(obj) ==
    LET v(f) == IF f \in DOMAIN obj THEN obj[f] ELSE ZeroValue(f)
    IN [ObjectKind |-> v("object_kind"),
        NoteableType |-> v("noteable_type"),
        Note |-> v("note"),
        ProjectID |-> v("project_id"),
        ID |-> v("id"),
        MergeStatus |-> v("merge_status"),
        ForceRemoveSourceBranch |-> v("force_remove_source_branch")]

Obj(kind, ntype, note, pid, id, status, force) ==
    [f \in Fields |->
        CASE f = "object_kind" -> kind
          [] f = "noteable_type" -> ntype
          [] f = "note" -> note
          [] f = "project_id" -> pid
          [] f = "id" -> id
          [] f = "merge_status" -> status
          [] f = "force_remove_source_branch" -> force]

Restrict(obj, keys) == [f \in keys |-> obj[f]]

MergeRequestIDs == {42}

\* the event of Scenario A: a complete event that passes the three checks
EventA == Obj("note", "MergeRequest", <<"L", "G", "T", "M">>, 7, 42, "can_be_merged", FALSE)

\* complete events that pass the three checks of checkLgtm: the same merge
\* request seen as mergeable and as not mergeable, and an event that names
\* the same merge request id under another project
LgtmObjects ==
    {EventA,
     Obj("note", "MergeRequest", <<"l", "g", "t", "m">>, 7, 42, "cannot_be_merged", FALSE),
     Obj("note", "MergeRequest", <<"L", "G", "T", "M">>, 8, 42, "can_be_merged", TRUE)}

\* complete events that fail one of the three checks
OtherObjects ==
    {Obj("issue", "MergeRequest", <<"L", "G", "T", "M">>, 7, 42, "can_be_merged", FALSE),
     Obj("note", "Commit", <<"L", "G", "T", "M">>, 7, 42, "can_be_merged", FALSE),
     Obj("note", "MergeRequest", <<"l", "g", "t", "m", "!">>, 7, 42, "can_be_merged", FALSE)}

\* partially populated events: some keys are absent from the JSON object
PartialObjects ==
    {[f \in {} |-> 0],
     Restrict(Obj("note", "MergeRequest", <<"L", "g", "T", "m">>, 7, 42, "can_be_merged", FALSE),
              {"object_kind", "noteable_type", "note"})}

Objects == LgtmObjects \cup OtherObjects \cup PartialObjects

\* A request: its Content-Type header ("" when the header is missing) and its
\* body: "nil" (r.Body == nil), "syntax" (bytes that are not JSON) or a JSON
\* object.
Requests ==
    {[ctype |-> "application/json", kind |-> "object", obj |-> o] : o \in Objects}
    \cup {[ctype |-> c, kind |-> "object", obj |-> EventA] : c \in {"", "text/plain"}}
    \cup {[ctype |-> "application/json", kind |-> k, obj |-> [f \in {} |-> 0]] :
            k \in {"nil", "syntax"}}

NoRequest == [ctype |-> "", kind |-> "none", obj |-> [f \in {} |-> 0]]


\* ----------------------------------------------------------------- state
VARIABLES
    pc,           \* [Handlers -> where the goroutine of the request stands]
    req,          \* [Handlers -> the request being handled]
    errRet,       \* LGTM: errRet, "nil" or the error text
    rd,           \* checkLgtm: count, ok read from lgtmCount at line 135
    newCount,     \* checkLgtm: the value this event stored in lgtmCount, kept
                  \* until the merge is decided at line 148 (0 otherwise)
    canbeMerged,  \* checkLgtm: canbeMerged
    reqURL,       \* acceptMergeRequest: the URL path of req (line 167)
    reqBody,      \* acceptMergeRequest: params, marshalled into bodyBytes
    attempts,     \* number of requests this event handed to http.DefaultClient.Do
    result,       \* acceptMergeRequest: resp, err of http.DefaultClient.Do
    mergeLog,     \* the log line acceptMergeRequest wrote about the outcome
    response,     \* what the deferred function wrote to the ResponseWriter
    mutex,        \* 0 when unlocked, else the handler that holds it
    lgtmCount,    \* map[int]int: a function whose domain is the keys present
    glURLPath,    \* glURL.Path
    crashed,      \* the runtime stopped the process (fatal error)
    received,     \* number of requests received so far
    approvals,    \* per merge request id: events that passed the three checks
    mergeCalls    \* per merge request id: merge requests sent for its events

hvars == <<pc, req, errRet, rd, newCount, canbeMerged, reqURL, reqBody, attempts,
           result, mergeLog, response>>
gvars == <<mutex, lgtmCount, glURLPath, crashed>>
hist == <<received, approvals, mergeCalls>>
vars == <<hvars, gvars, hist>>

\* every merge request id an event can carry (0 when the key is absent)
AllIDs == MergeRequestIDs \cup {0}

NoRead == [count |-> 0, ok |-> FALSE]
NoResult == [done |-> FALSE, err |-> FALSE, status |-> 0]
NoResponse == [sent |-> FALSE, status |-> 0, body |-> ""]
NoBody == [should_remove_source_branch |-> ""]

\* the comment LGTM decoded for handler h
Cmt(h) == Comment(req[h].obj)

\* -------------------------------------------------------- pure functions
\* mutant of LGTMError: the Content-Type header is not checked
LGTMErrorAnyContentType(r) ==
    IF r.kind = "nil" THEN ErrInvalidRequest
    ELSE IF r.kind = "syntax" THEN "invalid character"
    ELSE "nil"

\* LGTM, lines 95-108: the error the request is rejected with, or "nil".
LGTMError(r) ==
    IF r.ctype # "application/json" THEN ErrInvalidContentType
    ELSE IF r.kind = "nil" THEN ErrInvalidRequest
    ELSE IF r.kind = "syntax" THEN "invalid character"
    ELSE "nil"

\* mutant of Qualifies: the note is compared as it is, without
\* strings.ToUpper
QualifiesCaseSensitive(c) ==
    /\ c.ObjectKind = ObjectNote
    /\ c.NoteableType = NoteableTypeMergeRequest
    /\ c.Note = NoteLGTM

\* mutant of Qualifies: the note is matched by its first four characters
QualifiesByPrefix(c) ==
    /\ c.ObjectKind = ObjectNote
    /\ c.NoteableType = NoteableTypeMergeRequest
    /\ Len(c.Note) >= 4
    /\ ToUpper(SubSeq(c.Note, 1, 4)) = NoteLGTM

\* checkLgtm, lines 115-128: the three checks.
Qualifies(c) ==
    /\ c.ObjectKind = ObjectNote
    /\ c.NoteableType = NoteableTypeMergeRequest
    /\ ToUpper(c.Note) = NoteLGTM

\* acceptMergeRequest, line 166: fmt.Sprintf of the path.
MergePath(projectID, mergeRequestID) ==
    "/api/v3/projects/" \o ToString(projectID) \o "/merge_requests/"
        \o ToString(mergeRequestID) \o "/merge"

\* mutant of MergeBody: the event's flag is passed on
MergeBodyFromFlag(shouldRemoveSourceBranch) ==
    [should_remove_source_branch |-> IF shouldRemoveSourceBranch THEN "true" ELSE "false"]

\* acceptMergeRequest, lines 156-160: params, the body of the merge request;
\* the parameter shouldRemoveSourceBranch is not used.
MergeBody(shouldRemoveSourceBranch) ==
    [should_remove_source_branch |-> "true"]

\* acceptMergeRequest, lines 177-192: the log line for an outcome of Do;
\* the switch has no default case.
OutcomeLog(res) ==
    IF res.err THEN "execute request error"
    ELSE IF res.status = StatusOK THEN "accept merge request successfully."
    ELSE IF res.status = StatusMethodNotAllowed THEN "it has some conflicts and can not be merged"
    ELSE IF res.status = StatusNotAcceptable THEN "merge request is already merged or closed"
    ELSE ""

\* the deferred function of LGTM, lines 84-93
ResponseOf(err) ==
    IF err # "nil"
    THEN [sent |-> TRUE, status |-> StatusBadRequest, body |-> "error occurs:" \o err]
    ELSE [sent |-> TRUE, status |-> StatusOK, body |-> RespOK]

\* the outcomes of http.DefaultClient.Do: a transport error or a status
Statuses == {200, 405, 406, 500}
Results == {[done |-> TRUE, err |-> TRUE, status |-> 0]}
           \cup {[done |-> TRUE, err |-> FALSE, status |-> s] : s \in Statuses}

HasKey(m, k) == k \in DOMAIN m
Put(m, k, v) == [x \in DOMAIN m \cup {k} |-> IF x = k THEN v ELSE m[x]]

\* ------------------------------------------------------------------ Init
\* The state after main has registered the handler (lines 49-70): no request
\* is being handled by the goroutines H, the mutex is free, lgtmCount is the
\* empty map of line 44.
InitFor(H) ==
    /\ pc = [h \in H |-> "idle"]
    /\ req = [h \in H |-> NoRequest]
    /\ errRet = [h \in H |-> "nil"]
    /\ rd = [h \in H |-> NoRead]
    /\ newCount = [h \in H |-> 0]
    /\ canbeMerged = [h \in H |-> FALSE]
    /\ reqURL = [h \in H |-> ""]
    /\ reqBody = [h \in H |-> NoBody]
    /\ attempts = [h \in H |-> 0]
    /\ result = [h \in H |-> NoResult]
    /\ mergeLog = [h \in H |-> ""]
    /\ response = [h \in H |-> NoResponse]
    /\ mutex = 0
    /\ lgtmCount = [k \in {} |-> 0]
    /\ glURLPath = ""
    /\ crashed = FALSE
    /\ received = 0
    /\ approvals = [i \in AllIDs |-> 0]
    /\ mergeCalls = [i \in AllIDs |-> 0]

Init == InitFor(Handlers)

\* --------------------------------------------------------------- actions
\* where LGTM stands after lines 95-128: a rejected request and an event that
\* fails one of the three checks of checkLgtm are on the way to the deferred
\* function, a qualifying event is at mutex.Lock()
AfterChecks(r) ==
    IF LGTMError(r) = "nil" /\ Qualifies(Comment(r.obj)) THEN "lock" ELSE "respond"

\* mutant of LGTM: "OK" is written as soon as the body has been decoded,
\* before checkLgtm runs
LGTMRespondingFirst(h, r) ==
    /\ ~crashed
    /\ pc[h] \in {"idle", "done"}
    /\ \A o \in DOMAIN pc : o < h => pc[o] \notin {"idle", "done"}
    /\ received < MaxEvents
    /\ received' = received + 1
    /\ req' = [req EXCEPT ![h] = r]
    /\ errRet' = [errRet EXCEPT ![h] = LGTMError(r)]
    /\ pc' = [pc EXCEPT ![h] = AfterChecks(r)]
    /\ approvals' = IF AfterChecks(r) = "lock"
                     THEN [approvals EXCEPT ![Comment(r.obj).ID] = @ + 1]
                     ELSE approvals
    /\ attempts' = [attempts EXCEPT ![h] = 0]
    /\ response' = [response EXCEPT ![h] =
                      IF LGTMError(r) = "nil" THEN ResponseOf("nil") ELSE NoResponse]
    /\ UNCHANGED <<rd, newCount, canbeMerged, reqURL, reqBody, result, mergeLog,
                   gvars, mergeCalls>>

\* LGTM, lines 80-110, and checkLgtm, lines 113-128: a request arrives; the
\* header and the body are checked, the body is decoded and checkLgtm makes
\* its three checks, none of which touches shared state.  A rejected request
\* and an event that fails a check (checkLgtm returns nil) go on to the
\* deferred function.  net/http runs every request in a goroutine of its
\* own; goroutines have no identity, so the request takes the free handler
\* with the lowest number.
LGTM(h, r) ==
    /\ ~crashed
    /\ pc[h] \in {"idle", "done"}
    /\ \A o \in DOMAIN pc : o < h => pc[o] \notin {"idle", "done"}
    /\ received < MaxEvents
    /\ received' = received + 1
    /\ req' = [req EXCEPT ![h] = r]
    /\ errRet' = [errRet EXCEPT ![h] = LGTMError(r)]
    /\ pc' = [pc EXCEPT ![h] = AfterChecks(r)]
    /\ approvals' = IF AfterChecks(r) = "lock"
                     THEN [approvals EXCEPT ![Comment(r.obj).ID] = @ + 1]
                     ELSE approvals
    /\ attempts' = [attempts EXCEPT ![h] = 0]
    /\ response' = [response EXCEPT ![h] = NoResponse]
    /\ UNCHANGED <<rd, newCount, canbeMerged, reqURL, reqBody, result, mergeLog,
                   gvars, mergeCalls>>

\* mutant of Lock: the lock is taken without waiting for its holder
LockWithoutExclusion(h) ==
    /\ ~crashed
    /\ pc[h] = "lock"
    /\ mutex' = h
    /\ pc' = [pc EXCEPT ![h] = "read"]
    /\ UNCHANGED <<req, errRet, rd, newCount, canbeMerged, reqURL, reqBody, attempts,
                   result, mergeLog, response, lgtmCount, glURLPath, crashed, hist>>

\* checkLgtm, line 134: mutex.Lock() blocks while another goroutine holds it.
Lock(h) ==
    /\ ~crashed
    /\ pc[h] = "lock"
    /\ mutex = 0
    /\ mutex' = h
    /\ pc' = [pc EXCEPT ![h] = "read"]
    /\ UNCHANGED <<req, errRet, rd, newCount, canbeMerged, reqURL, reqBody, attempts,
                   result, mergeLog, response, lgtmCount, glURLPath, crashed, hist>>

\* mutant of ReadCount: the lock covers the read only and is released
\* before the store
ReadCountReleasing(h) ==
    /\ ~crashed
    /\ pc[h] = "read"
    /\ rd' = [rd EXCEPT ![h] =
                IF HasKey(lgtmCount, Cmt(h).ID)
                THEN [count |-> lgtmCount[Cmt(h).ID], ok |-> TRUE]
                ELSE NoRead]
    /\ mutex' = 0
    /\ pc' = [pc EXCEPT ![h] = "write"]
    /\ UNCHANGED <<req, errRet, newCount, canbeMerged, reqURL, reqBody, attempts,
                   result, mergeLog, response, lgtmCount, glURLPath, crashed, hist>>

\* checkLgtm, line 135: count, ok := lgtmCount[comment.MergeRequest.ID]
ReadCount(h) ==
    /\ ~crashed
    /\ pc[h] = "read"
    /\ rd' = [rd EXCEPT ![h] =
                IF HasKey(lgtmCount, Cmt(h).ID)
                THEN [count |-> lgtmCount[Cmt(h).ID], ok |-> TRUE]
                ELSE NoRead]
    /\ pc' = [pc EXCEPT ![h] = "write"]
    /\ UNCHANGED <<req, errRet, newCount, canbeMerged, reqURL, reqBody, attempts,
                   result, mergeLog, response, gvars, hist>>

\* mutant of WriteCount: only an event whose merge_status is can_be_merged
\* is stored in the counter
WriteCountOnlyMergeable(h) ==
    /\ ~crashed
    /\ pc[h] = "write"
    /\ LET n == IF rd[h].ok THEN rd[h].count + 1 ELSE 1 IN
        /\ newCount' = [newCount EXCEPT ![h] = n]
        /\ canbeMerged' = [canbeMerged EXCEPT ![h] = rd[h].ok /\ n >= ValidLGTMCount]
        /\ lgtmCount' = IF Cmt(h).MergeStatus = StatusCanbeMerged
                         THEN Put(lgtmCount, Cmt(h).ID, n)
                         ELSE lgtmCount
        /\ rd' = [rd EXCEPT ![h] = NoRead]
        /\ pc' = [pc EXCEPT ![h] = "unlock"]
    /\ UNCHANGED <<req, errRet, reqURL, reqBody, attempts, result, mergeLog, response,
                   mutex, glURLPath, crashed, hist>>

\* mutant of WriteCount: once the threshold is reached the counter starts
\* over with the next approval
WriteCountStartingOver(h) ==
    /\ ~crashed
    /\ pc[h] = "write"
    /\ LET n == IF rd[h].ok /\ rd[h].count < ValidLGTMCount THEN rd[h].count + 1 ELSE 1 IN
        /\ newCount' = [newCount EXCEPT ![h] = n]
        /\ canbeMerged' = [canbeMerged EXCEPT ![h] = rd[h].ok /\ n >= ValidLGTMCount]
        /\ lgtmCount' = Put(lgtmCount, Cmt(h).ID, n)
        /\ rd' = [rd EXCEPT ![h] = NoRead]
        /\ pc' = [pc EXCEPT ![h] = "unlock"]
    /\ UNCHANGED <<req, errRet, reqURL, reqBody, attempts, result, mergeLog, response,
                   mutex, glURLPath, crashed, hist>>

\* mutant of WriteCount: the first approval is compared with ValidLGTMCount
\* too, and the threshold is taken as reached by it
WriteCountFirstReaches(h) ==
    /\ ~crashed
    /\ pc[h] = "write"
    /\ LET n == IF rd[h].ok THEN rd[h].count + 1 ELSE 1 IN
        /\ newCount' = [newCount EXCEPT ![h] = n]
        /\ canbeMerged' = [canbeMerged EXCEPT ![h] = n >= ValidLGTMCount - 1]
        /\ lgtmCount' = Put(lgtmCount, Cmt(h).ID, n)
        /\ rd' = [rd EXCEPT ![h] = NoRead]
        /\ pc' = [pc EXCEPT ![h] = "unlock"]
    /\ UNCHANGED <<req, errRet, reqURL, reqBody, attempts, result, mergeLog, response,
                   mutex, glURLPath, crashed, hist>>

\* checkLgtm, lines 136-143: the store of the new count; count and ok go out
\* of scope with the if statement.  Another goroutine
\* that is printing the map at line 146 reads it without the lock; the Go
\* runtime may then stop the process ("concurrent map iteration and map
\* write"), or may not notice.
WriteCount(h) ==
    /\ ~crashed
    /\ pc[h] = "write"
    /\ \E fatal \in IF \E o \in DOMAIN pc \ {h} : pc[o] = "log146" THEN BOOLEAN ELSE {FALSE} :
        IF fatal
        THEN /\ crashed' = TRUE
             /\ UNCHANGED <<pc, rd, newCount, canbeMerged, lgtmCount>>
        ELSE LET n == IF rd[h].ok THEN rd[h].count + 1 ELSE 1 IN
             /\ crashed' = FALSE
             /\ newCount' = [newCount EXCEPT ![h] = n]
             /\ canbeMerged' = [canbeMerged EXCEPT ![h] = rd[h].ok /\ n >= ValidLGTMCount]
             /\ lgtmCount' = Put(lgtmCount, Cmt(h).ID, n)
             /\ rd' = [rd EXCEPT ![h] = NoRead]
             /\ pc' = [pc EXCEPT ![h] = "unlock"]
    /\ UNCHANGED <<req, errRet, reqURL, reqBody, attempts, result, mergeLog, response,
                   mutex, glURLPath, hist>>

\* mutant of Unlock: the mutex is released in the branch of the present key
\* only; the first approval of an id leaves it held
UnlockInOneBranch(h) ==
    /\ ~crashed
    /\ pc[h] = "unlock"
    /\ mutex' = IF newCount[h] > 1 THEN 0 ELSE mutex
    /\ pc' = [pc EXCEPT ![h] = "log146"]
    /\ UNCHANGED <<req, errRet, rd, newCount, canbeMerged, reqURL, reqBody, attempts,
                   result, mergeLog, response, lgtmCount, glURLPath, crashed, hist>>

\* checkLgtm, line 144: mutex.Unlock()
Unlock(h) ==
    /\ ~crashed
    /\ pc[h] = "unlock"
    /\ mutex' = 0
    /\ pc' = [pc EXCEPT ![h] = "log146"]
    /\ UNCHANGED <<req, errRet, rd, newCount, canbeMerged, reqURL, reqBody, attempts,
                   result, mergeLog, response, lgtmCount, glURLPath, crashed, hist>>

\* mutant of LogCounter: no merge call for an id that has had one
LogCounterOncePerTarget(h) ==
    /\ ~crashed
    /\ pc[h] = "log146"
    /\ pc' = [pc EXCEPT ![h] =
                IF /\ canbeMerged[h]
                   /\ Cmt(h).MergeStatus = StatusCanbeMerged
                   /\ mergeCalls[Cmt(h).ID] = 0
                THEN "accept" ELSE "respond"]
    /\ newCount' = [newCount EXCEPT ![h] = 0]
    /\ UNCHANGED <<req, errRet, rd, canbeMerged, reqURL, reqBody, attempts,
                   result, mergeLog, response, gvars, hist>>

\* mutant of LogCounter: the merge is decided from canbeMerged alone
LogCounterIgnoringStatus(h) ==
    /\ ~crashed
    /\ pc[h] = "log146"
    /\ pc' = [pc EXCEPT ![h] = IF canbeMerged[h] THEN "accept" ELSE "respond"]
    /\ newCount' = [newCount EXCEPT ![h] = 0]
    /\ UNCHANGED <<req, errRet, rd, canbeMerged, reqURL, reqBody, attempts,
                   result, mergeLog, response, gvars, hist>>

\* checkLgtm, lines 146-153: the map is printed (read without the lock), then
\* the merge is decided from canbeMerged and the event's own merge_status.
LogCounter(h) ==
    /\ ~crashed
    /\ pc[h] = "log146"
    /\ pc' = [pc EXCEPT ![h] =
                IF canbeMerged[h] /\ Cmt(h).MergeStatus = StatusCanbeMerged
                THEN "accept" ELSE "respond"]
    /\ newCount' = [newCount EXCEPT ![h] = 0]
    /\ UNCHANGED <<req, errRet, rd, canbeMerged, reqURL, reqBody, attempts,
                   result, mergeLog, response, gvars, hist>>

\* acceptMergeRequest, lines 156-166: the body is marshalled (a
\* map[string]string always marshals) and glURL.Path is overwritten.
SetPath(h) ==
    /\ ~crashed
    /\ pc[h] = "accept"
    /\ reqBody' = [reqBody EXCEPT ![h] = MergeBody(Cmt(h).ForceRemoveSourceBranch)]
    /\ glURLPath' = MergePath(Cmt(h).ProjectID, Cmt(h).ID)
    /\ pc' = [pc EXCEPT ![h] = "newRequest"]
    /\ UNCHANGED <<req, errRet, rd, newCount, canbeMerged, reqURL, attempts,
                   result, mergeLog, response, mutex, lgtmCount, crashed, hist>>

\* acceptMergeRequest, lines 167-176: http.NewRequest("PUT", glURL.String())
\* reads glURL.Path, which no lock protects: it is the path stored last, by
\* this goroutine or by another one.  (When the read overlaps another
\* goroutine's store it returns the old string or the new one; a torn string
\* header, the pointer of one with the length of the other, is one of the
\* two again when they are equally long, as all paths of Requests are.)
\* The headers are set and http.DefaultClient.Do sends the request and
\* blocks; the default client has no timeout.
NewRequest(h) ==
    /\ ~crashed
    /\ pc[h] = "newRequest"
    /\ reqURL' = [reqURL EXCEPT ![h] = glURLPath]
    /\ attempts' = [attempts EXCEPT ![h] = @ + 1]
    /\ mergeCalls' = [mergeCalls EXCEPT ![Cmt(h).ID] = @ + 1]
    /\ pc' = [pc EXCEPT ![h] = "waiting"]
    /\ UNCHANGED <<req, errRet, rd, newCount, canbeMerged, reqBody,
                   result, mergeLog, response, gvars, received, approvals>>

\* mutant of DoReturn: a failed merge call is reported to the webhook caller
DoReturnPropagating(h, res) ==
    /\ ~crashed
    /\ pc[h] = "waiting"
    /\ result' = [result EXCEPT ![h] = res]
    /\ mergeLog' = [mergeLog EXCEPT ![h] = OutcomeLog(res)]
    /\ errRet' = [errRet EXCEPT ![h] =
                    IF res.err \/ res.status # StatusOK THEN "merge failed" ELSE @]
    /\ reqURL' = [reqURL EXCEPT ![h] = ""]
    /\ reqBody' = [reqBody EXCEPT ![h] = NoBody]
    /\ pc' = [pc EXCEPT ![h] = "respond"]
    /\ UNCHANGED <<req, rd, newCount, canbeMerged, attempts,
                   response, gvars, hist>>

\* mutant of DoReturn: a merge call that did not end with 200 is sent again
DoReturnRetrying(h, res) ==
    /\ ~crashed
    /\ pc[h] = "waiting"
    /\ result' = [result EXCEPT ![h] = res]
    /\ mergeLog' = [mergeLog EXCEPT ![h] = OutcomeLog(res)]
    /\ reqURL' = [reqURL EXCEPT ![h] = IF res.err \/ res.status # StatusOK THEN @ ELSE ""]
    /\ reqBody' = [reqBody EXCEPT ![h] = IF res.err \/ res.status # StatusOK THEN @ ELSE NoBody]
    /\ pc' = [pc EXCEPT ![h] = IF res.err \/ res.status # StatusOK THEN "newRequest" ELSE "respond"]
    /\ UNCHANGED <<req, errRet, rd, newCount, canbeMerged, attempts,
                   response, gvars, hist>>

\* acceptMergeRequest, lines 176-193: Do returns; the outcome is logged by
\* the switch and the function returns to checkLgtm, which returns to LGTM.
DoReturn(h, res) ==
    /\ ~crashed
    /\ pc[h] = "waiting"
    /\ result' = [result EXCEPT ![h] = res]
    /\ mergeLog' = [mergeLog EXCEPT ![h] = OutcomeLog(res)]
    /\ reqURL' = [reqURL EXCEPT ![h] = ""]
    /\ reqBody' = [reqBody EXCEPT ![h] = NoBody]
    /\ pc' = [pc EXCEPT ![h] = "respond"]
    /\ UNCHANGED <<req, errRet, rd, newCount, canbeMerged, attempts,
                   response, gvars, hist>>

\* LGTM, lines 84-93: the deferred function writes the response and LGTM
\* returns; its locals (the request, the comment, errRet) and those of
\* checkLgtm and acceptMergeRequest are gone.  What stays is the response
\* and the number of merge requests the event has sent.
Respond(h) ==
    /\ ~crashed
    /\ pc[h] = "respond"
    /\ response' = [response EXCEPT ![h] = ResponseOf(errRet[h])]
    /\ pc' = [pc EXCEPT ![h] = "done"]
    /\ canbeMerged' = [canbeMerged EXCEPT ![h] = FALSE]
    /\ result' = [result EXCEPT ![h] = NoResult]
    /\ mergeLog' = [mergeLog EXCEPT ![h] = ""]
    /\ req' = [req EXCEPT ![h] = NoRequest]
    /\ errRet' = [errRet EXCEPT ![h] = "nil"]
    /\ UNCHANGED <<rd, newCount, reqURL, reqBody, attempts, gvars, hist>>

Next ==
    \/ \E h \in Handlers, r \in Requests : LGTM(h, r)
    \/ \E h \in Handlers : Lock(h)
    \/ \E h \in Handlers : ReadCount(h)
    \/ \E h \in Handlers : WriteCount(h)
    \/ \E h \in Handlers : Unlock(h)
    \/ \E h \in Handlers : LogCounter(h)
    \/ \E h \in Handlers : SetPath(h)
    \/ \E h \in Handlers : NewRequest(h)
    \/ \E h \in Handlers, res \in Results : DoReturn(h, res)
    \/ \E h \in Handlers : Respond(h)

Spec == Init /\ [][Next]_vars

\* ------------------------------------------------- a merge call that hangs
\* One goroutine more than in Spec: one whose merge call does not return and
\* two that go on handling events.
HangHandlers == 1..(NumHandlers + 1)

\* the events that pass the checks of checkLgtm, sent as JSON
HangRequests ==
    {[ctype |-> "application/json", kind |-> "object", obj |-> o] : o \in LgtmObjects}

HangNext ==
    \/ \E h \in HangHandlers, r \in HangRequests : LGTM(h, r)
    \/ \E h \in HangHandlers : Lock(h)
    \/ \E h \in HangHandlers : ReadCount(h)
    \/ \E h \in HangHandlers : WriteCount(h)
    \/ \E h \in HangHandlers : Unlock(h)
    \/ \E h \in HangHandlers : LogCounter(h)
    \/ \E h \in HangHandlers : SetPath(h)
    \/ \E h \in HangHandlers : NewRequest(h)
    \/ \E h \in HangHandlers, res \in Results : DoReturn(h, res)
    \/ \E h \in HangHandlers : Respond(h)

\* The Go scheduler runs every runnable goroutine again and again, and a
\* goroutine that waits in mutex.Lock gets the mutex once it stays free
\* (sync.Mutex hands it to a waiter that has waited long): every step of a
\* handler that stays possible is taken.  Nothing makes a request arrive,
\* and nothing makes http.DefaultClient.Do return: the default client has no
\* timeout (line 176).
HangFairness ==
    \A h \in HangHandlers :
        /\ WF_vars(Lock(h))
        /\ WF_vars(ReadCount(h))
        /\ WF_vars(WriteCount(h))
        /\ WF_vars(Unlock(h))
        /\ WF_vars(LogCounter(h))
        /\ WF_vars(SetPath(h))
        /\ WF_vars(NewRequest(h))
        /\ WF_vars(Respond(h))

HangSpec == InitFor(HangHandlers) /\ [][HangNext]_vars /\ HangFairness

\* ------------------------------------- one target, mergeable events only
\* Every event is a qualifying one for merge request 42 with merge_status
\* can_be_merged.
MergeableRequests ==
    {[ctype |-> "application/json", kind |-> "object", obj |-> o] :
        o \in {c \in LgtmObjects : Comment(c).MergeStatus = StatusCanbeMerged}}

MergeableNext ==
    \/ \E h \in Handlers, r \in MergeableRequests : LGTM(h, r)
    \/ \E h \in Handlers : Lock(h)
    \/ \E h \in Handlers : ReadCount(h)
    \/ \E h \in Handlers : WriteCount(h)
    \/ \E h \in Handlers : Unlock(h)
    \/ \E h \in Handlers : LogCounter(h)
    \/ \E h \in Handlers : SetPath(h)
    \/ \E h \in Handlers : NewRequest(h)
    \/ \E h \in Handlers, res \in Results : DoReturn(h, res)
    \/ \E h \in Handlers : Respond(h)

MergeableSpec == Init /\ [][MergeableNext]_vars

\* ------------------------------------------------- the note of a comment
\* Notes for the third check of checkLgtm (lines 125-128): the keyword in
\* every mix of upper and lower case, alone and with something before or
\* after it, and some texts without the keyword.
CaseVariants ==
    {<<a, b, c, d>> : a \in {"l", "L"}, b \in {"g", "G"}, c \in {"t", "T"}, d \in {"m", "M"}}

Prefixes == {<< >>, <<" ">>, <<"x">>}

Suffixes == {<< >>, <<"!">>, <<" ">>, <<"x">>}

Notes ==
    {pre \o core \o suf : pre \in Prefixes, core \in CaseVariants, suf \in Suffixes}
    \cup {<< >>, <<"l", "g", "t">>, <<"g", "t", "m">>, <<"l", "g", "m", "t">>,
          <<"l", "g", " ", "t", "m">>, <<"l", "g", "t", "m", "l", "g", "t", "m">>}

\* comments on merge request 42 that differ in the note only
NoteRequests ==
    {[ctype |-> "application/json", kind |-> "object",
      obj |-> Obj("note", "MergeRequest", n, 7, 42, "cannot_be_merged", FALSE)] :
        n \in Notes}

\* the comments arrive one after the other
NoteNext ==
    \/ \E r \in NoteRequests : LGTM(1, r)
    \/ Lock(1)
    \/ ReadCount(1)
    \/ WriteCount(1)
    \/ Unlock(1)
    \/ LogCounter(1)
    \/ Respond(1)

NoteSpec == Init /\ [][NoteNext]_vars

\* ----------------------------------------- force_remove_source_branch
\* Two events that differ in merge_params.force_remove_source_branch only.
EventAForce == Obj("note", "MergeRequest", <<"L", "G", "T", "M">>, 7, 42, "can_be_merged", TRUE)

FlagRequests ==
    {[ctype |-> "application/json", kind |-> "object", obj |-> o] :
        o \in {EventA, EventAForce}}

FlagNext ==
    \/ \E h \in Handlers, r \in FlagRequests : LGTM(h, r)
    \/ \E h \in Handlers : Lock(h)
    \/ \E h \in Handlers : ReadCount(h)
    \/ \E h \in Handlers : WriteCount(h)
    \/ \E h \in Handlers : Unlock(h)
    \/ \E h \in Handlers : LogCounter(h)
    \/ \E h \in Handlers : SetPath(h)
    \/ \E h \in Handlers : NewRequest(h)
    \/ \E h \in Handlers, res \in Results : DoReturn(h, res)
    \/ \E h \in Handlers : Respond(h)

FlagSpec == Init /\ [][FlagNext]_vars

\* ------------------------------------------- merge_status of the events
\* Approvals of merge request 42 of project 7 that differ in merge_status
\* only: can_be_merged and cannot_be_merged.
StatusRequests ==
    {[ctype |-> "application/json", kind |-> "object", obj |-> o] :
        o \in {c \in LgtmObjects : Comment(c).ProjectID = Comment(EventA).ProjectID}}

StatusNext ==
    \/ \E h \in Handlers, r \in StatusRequests : LGTM(h, r)
    \/ \E h \in Handlers : Lock(h)
    \/ \E h \in Handlers : ReadCount(h)
    \/ \E h \in Handlers : WriteCount(h)
    \/ \E h \in Handlers : Unlock(h)
    \/ \E h \in Handlers : LogCounter(h)
    \/ \E h \in Handlers : SetPath(h)
    \/ \E h \in Handlers : NewRequest(h)
    \/ \E h \in Handlers, res \in Results : DoReturn(h, res)
    \/ \E h \in Handlers : Respond(h)

StatusSpec == Init /\ [][StatusNext]_vars

\* ================================================================ claims
\* The classifier as the specification words it (section 4.1), written out
\* independently of Qualifies.
IsApproval(c) ==
    /\ c.ObjectKind = "note"
    /\ c.NoteableType = "MergeRequest"
    /\ ToUpper(c.Note) = <<"L", "G", "T", "M">>

CommentOf(r) == Comment(r.obj)

\* a request that LGTM must reject: wrong or missing Content-Type, no body,
\* or a body that is not JSON
IsMalformed(r) ==
    /\ r.kind # "none"
    /\ \/ r.ctype # "application/json"
       \/ r.kind \in {"nil", "syntax"}

\* a request that carries the JSON content type and a JSON object
IsParsed(r) == r.ctype = "application/json" /\ r.kind = "object"

Count(id) == IF id \in DOMAIN lgtmCount THEN lgtmCount[id] ELSE 0

InMergeCall(h) == pc[h] \in {"accept", "newRequest", "waiting"}

\* the request handler h is busy with in the step at hand: the one that
\* arrives in this step when the handler is free, else the one it holds
Handled(h) == IF pc[h] \in {"idle", "done"} THEN req'[h] ELSE req[h]

AllFinished == \A h \in Handlers : pc[h] \in {"idle", "done"}

OKResponse == [sent |-> TRUE, status |-> 200, body |-> "OK"]

\* C1: no lost updates.  Once every handler has finished, the counter of each
\* merge request id equals the number of qualifying events received for it,
\* whatever the interleaving of the handlers was.
C1_NoLostUpdates ==
    AllFinished => \A id \in AllIDs : Count(id) = approvals[id]

\* C1 witness: three qualifying events for merge request 42 have all been
\* handled and the counter is 3.
C1_Witness ==
    /\ AllFinished
    /\ approvals[42] = 3
    /\ Count(42) = 3

\* C2: acceptMergeRequest is entered by a handler exactly when it leaves line
\* 146-148 with a qualifying event, a post-increment count >= 2 and the
\* event's own merge_status "can_be_merged"; the post-increment count is the
\* value of the counter right after this event's store.
C2_MergeIffQuorumAndMergeable ==
    [][\A h \in Handlers :
        /\ (pc[h] = "write" /\ pc'[h] = "unlock")
              => newCount'[h] = Count(CommentOf(req[h]).ID)'
        /\ (pc[h] # "accept" /\ pc'[h] = "accept")
              <=> /\ pc[h] = "log146" /\ pc'[h] # "log146"
                  /\ IsApproval(CommentOf(req[h]))
                  /\ newCount[h] >= 2
                  /\ CommentOf(req[h]).MergeStatus = "can_be_merged"]_vars

\* C2 witness: two approvals of merge request 42 have been received; the
\* first was answered without a merge call and the second, an EventA, has
\* entered acceptMergeRequest.
C2_Witness ==
    \E h, o \in Handlers :
        /\ received = 2 /\ approvals[42] = 2 /\ Count(42) = 2
        /\ pc[o] = "done" /\ attempts[o] = 0 /\ mergeCalls[42] = 0
        /\ pc[h] = "accept" /\ req[h].obj = EventA

\* C3: an event that fails one of the three checks never gets past the
\* checks: every step of its handler leaves lgtmCount and the merge calls
\* unchanged and keeps the handler out of the critical section and out of
\* acceptMergeRequest.
C3_UnmatchedIsNoOp ==
    [][\A h \in Handlers :
        (pc'[h] # pc[h] /\ IsParsed(Handled(h)) /\ ~IsApproval(CommentOf(Handled(h))))
            => /\ lgtmCount' = lgtmCount
               /\ mergeCalls' = mergeCalls
               /\ approvals' = approvals
               /\ attempts'[h] = 0
               /\ pc'[h] \in {"respond", "done"}]_vars

\* C3 witness: an "issue" event has passed through checkLgtm while the
\* counter map held an entry, which is still there.
C3_Witness ==
    \E h \in Handlers :
        /\ pc[h] = "respond"
        /\ IsParsed(req[h])
        /\ CommentOf(req[h]).ObjectKind = "issue"
        /\ Count(42) = 1

\* C4 (as claimed): every merge request that is sent, or about to be sent, is
\* addressed to the merge endpoint of the project and merge request of the
\* event that triggered it.
C4_RequestAddressedToOwnTarget ==
    \A h \in Handlers :
        pc[h] = "waiting"
            => reqURL[h] = MergePath(CommentOf(req[h]).ProjectID, CommentOf(req[h]).ID)

\* C5 (as claimed): the merge call is issued at most once per merge request.
C5_ExactlyOncePerTarget ==
    \A id \in AllIDs : mergeCalls[id] <= 1

\* C5 (amended): merge calls are issued once per triggering event, not once
\* per target: none before the counter of the target has reached 2, at most
\* one per event, and so at most one for each qualifying event after the
\* first.
C5_OncePerTriggeringEvent ==
    /\ \A h \in Handlers : attempts[h] <= 1
    /\ \A id \in AllIDs :
        /\ mergeCalls[id] >= 1 => Count(id) >= 2
        /\ approvals[id] >= 1 => mergeCalls[id] <= approvals[id] - 1
        /\ approvals[id] = 0 => mergeCalls[id] = 0

\* C5 witness: the merge call has been issued twice for merge request 42.
C5_Witness ==
    /\ mergeCalls[42] = 2
    /\ Count(42) = 3

\* C6 (as claimed): when the merge call of an event is issued, the webhook
\* response of that event has already been sent.
C6_RespondedBeforeMergeCall ==
    \A h \in Handlers : pc[h] = "waiting" => response[h].sent

\* C6 (amended): the response of an event that triggers a merge call is
\* written only after the merge call has returned, and it is 200 "OK"
\* whatever the call returned.
C6_RespondedAfterMergeCall ==
    \A h \in Handlers :
        /\ InMergeCall(h) => ~response[h].sent
        /\ (pc[h] = "respond" /\ result[h].done) => ~response[h].sent
        /\ (pc[h] = "done" /\ attempts[h] >= 1) => response[h] = OKResponse

\* C6 witness: an event whose merge call was made has been answered.
C6_Witness ==
    \E h \in Handlers :
        /\ pc[h] = "done"
        /\ attempts[h] = 1
        /\ response[h].sent

\* C7: a request with Content-Type application/json and a body that decodes
\* is answered with 200 "OK", qualifying or not, merge call or not, whatever
\* the merge call returned.
C7_ParsedRequestGetsOK ==
    [][\A h \in Handlers :
        (pc[h] = "respond" /\ pc'[h] = "done" /\ IsParsed(req[h]))
            => response'[h] = OKResponse]_vars

\* C7 witness: the only request received so far was parsed, was no approval,
\* and has been answered with 200 "OK"; the counter map is empty.
C7_Witness ==
    \E h \in Handlers :
        /\ received = 1
        /\ \A id \in AllIDs : approvals[id] = 0 /\ Count(id) = 0
        /\ pc[h] = "done"
        /\ response[h] = OKResponse

\* C8: a request with a wrong or missing Content-Type, without a body or with
\* a body that is not JSON goes straight to the response, which is 400 with
\* an error message; no step of its handler changes lgtmCount, issues a merge
\* call or stops the process.
C8_MalformedRequestGets400 ==
    [][\A h \in Handlers :
        (pc'[h] # pc[h] /\ IsMalformed(Handled(h)))
            => /\ lgtmCount' = lgtmCount
               /\ mergeCalls' = mergeCalls
               /\ approvals' = approvals
               /\ attempts'[h] = 0
               /\ ~crashed'
               /\ pc'[h] \in {"respond", "done"}
               /\ pc'[h] = "done"
                    => /\ response'[h].sent
                       /\ response'[h].status = 400
                       /\ response'[h].body \in
                            {"error occurs:invalid content type",
                             "error occurs:invalid request body",
                             "error occurs:invalid character"}]_vars

\* C8 witness: a request without the JSON Content-Type was answered with 400
\* while the counter map was empty, and the next request, an approval, is
\* being handled.
C8_Witness ==
    \E h, o \in Handlers :
        /\ received = 2
        /\ pc[h] = "done"
        /\ response[h].status = 400
        /\ response[h].body = "error occurs:invalid content type"
        /\ pc[o] = "lock"
        /\ Count(42) = 0

\* C9: no retry.  An event hands at most one request to the HTTP client;
\* whatever Do returns, the handler goes on to the response without another
\* request, and no step inside acceptMergeRequest changes lgtmCount.
C9_NoRetry ==
    [][\A h \in Handlers :
        (InMergeCall(h) /\ pc'[h] # pc[h])
            => /\ lgtmCount' = lgtmCount
               /\ attempts'[h] <= 1
               /\ pc[h] = "waiting"
                    => /\ pc'[h] = "respond"
                       /\ attempts'[h] = attempts[h]
                       /\ mergeCalls' = mergeCalls]_vars

\* C9 witness: a merge call that ended with 405 has returned and its handler
\* is on the way to the response, having made one request.
C9_Witness ==
    \E h \in Handlers :
        /\ pc[h] = "respond"
        /\ result[h].done /\ result[h].status = 405
        /\ attempts[h] = 1

\* C10 (as claimed): every outcome of the merge call is logged: 200 as
\* success, 405 as a conflict, 406 as already merged or closed, and any other
\* status or a transport failure as an error.
C10_EveryOutcomeLogged ==
    \A h \in Handlers :
        result[h].done
            => /\ mergeLog[h] # ""
               /\ (~result[h].err /\ result[h].status = 200)
                    => mergeLog[h] = "accept merge request successfully."
               /\ (~result[h].err /\ result[h].status = 405)
                    => mergeLog[h] = "it has some conflicts and can not be merged"
               /\ (~result[h].err /\ result[h].status = 406)
                    => mergeLog[h] = "merge request is already merged or closed"

\* C11: counter monotonicity.  Every counter that exists is at least 1; no
\* step removes a counter, resets it or lowers it: a step leaves each counter
\* as it is or raises it by exactly 1, and a counter that appears starts at
\* 1.  This holds also after merge calls have been sent for the id.
C11_CountersOnlyGrowByOne ==
    [][/\ \A id \in DOMAIN lgtmCount :
            /\ lgtmCount[id] >= 1
            /\ id \in DOMAIN lgtmCount'
            /\ lgtmCount'[id] \in {lgtmCount[id], lgtmCount[id] + 1}
       /\ \A id \in DOMAIN lgtmCount' \ DOMAIN lgtmCount : lgtmCount'[id] = 1]_vars

\* an approval has been counted after the threshold was reached and a merge
\* call was sent: the counter went on to 3
C11_Witness ==
    /\ Count(42) = 3
    /\ mergeCalls[42] >= 1
    /\ \E h \in Handlers : pc[h] = "unlock" /\ newCount[h] = 3

\* the handler holds the count its own increment produced and has not yet
\* decided on it
Deciding(h) == pc[h] \in {"unlock", "log146"}

\* C12: linearizable increments.  The count a handler stores, and on which
\* it bases its decision, is one more than the counter at the moment of the
\* store, so the counts of N qualifying events on one id are 1, 2, .., N in
\* the order of the stores; two handlers that are deciding for the same id
\* at the same time never hold the same count, and no count exceeds the
\* number of qualifying events received for the id.
C12_LinearizableIncrements ==
    [][/\ \A h \in Handlers :
            pc[h] = "write" /\ pc'[h] = "unlock" =>
                /\ newCount'[h] = Count(Cmt(h).ID) + 1
                /\ Count(Cmt(h).ID)' = newCount'[h]
       /\ \A h \in Handlers :
            Deciding(h) => newCount[h] \in 1..approvals[Cmt(h).ID]
       /\ \A h, o \in Handlers :
            h # o /\ Deciding(h) /\ Deciding(o) /\ Cmt(h).ID = Cmt(o).ID
                => newCount[h] # newCount[o]]_vars

\* two handlers decide for id 42 at the same time, one on count 1 and the
\* other on count 2
C12_Witness ==
    \E h, o \in Handlers :
        /\ pc[h] = "log146" /\ pc[o] = "log146"
        /\ Cmt(h).ID = 42 /\ Cmt(o).ID = 42
        /\ newCount[h] = 1 /\ newCount[o] = 2

\* the handler is at a statement that accesses the lgtmCount map: the
\* lookup of line 135, the store of lines 140/142, the print of line 146
AccessesMap(h) == pc[h] \in {"read", "write", "log146"}

\* C13: every access to lgtmCount, reads included, happens while the
\* accessing handler holds the mutex, and no handler reads the map while
\* another one is writing it.
C13_MapAccessedUnderMutex ==
    /\ \A h \in Handlers : AccessesMap(h) => mutex = h
    /\ ~ \E h, o \in Handlers : h # o /\ pc[h] = "log146" /\ pc[o] = "write"

\* C14: the mutex is held exactly between mutex.Lock and mutex.Unlock of
\* checkLgtm: by the handler that is looking up, storing or about to unlock,
\* and by no other.  A handler that is inside acceptMergeRequest or about to
\* write the webhook response, and one that has finished, does not hold it.
C14_MutexHeldOnlyInCriticalSection ==
    \A h \in Handlers :
        /\ mutex = h <=> pc[h] \in {"read", "write", "unlock"}
        /\ InMergeCall(h) \/ pc[h] \in {"respond", "done"} => mutex # h

\* one handler waits for the answer to its merge call while another one
\* holds the mutex and stores its count
C14_Witness ==
    \E h, o \in Handlers :
        /\ pc[h] = "waiting"
        /\ pc[o] = "write" /\ mutex = o

\* C15: a merge call that never returns blocks only its own handler.  Under
\* fair scheduling, an event that is waiting for the mutex while the merge
\* call of another event is pending gets the mutex, stores its count and
\* gets its webhook response (unless it ends in a pending merge call of its
\* own), or else the other event's merge call has returned after all.
C15_HangBlocksOnlyItsHandler ==
    \A h \in HangHandlers : \A o \in HangHandlers \ {h} :
        (pc[h] = "lock" /\ pc[o] = "waiting")
            ~> (pc[h] \in {"done", "waiting"} \/ pc[o] # "waiting")

\* C16: repeated triggering above the threshold.  When all events are
\* qualifying ones with merge_status can_be_merged, the N events a target
\* has received have sent N-1 merge calls once they are all handled: every
\* event but the first sends one, whatever calls were sent before it; while
\* events are being handled the calls sent are not more than that.
C16_AllButFirstTrigger ==
    \A id \in AllIDs :
        /\ mergeCalls[id] <= IF approvals[id] = 0 THEN 0 ELSE approvals[id] - 1
        /\ AllFinished =>
             mergeCalls[id] = IF approvals[id] = 0 THEN 0 ELSE approvals[id] - 1

\* three mergeable approvals of merge request 42 have been handled and two
\* merge calls were sent for it
C16_Witness ==
    /\ AllFinished
    /\ received = 3
    /\ approvals[42] = 3
    /\ mergeCalls[42] = 2

\* an event from whose JSON object some of the fields are absent
IsPartial(r) == r.kind = "object" /\ DOMAIN r.obj # Fields

\* C17: a partially populated event always fails one of the three checks of
\* checkLgtm and is ignored.  A handler that holds such an event, decoded
\* without error, is on its way to the response "OK" and nowhere else: it
\* is not at the lock, does not count and sends no merge call; and no
\* counter exists for the zero id that absent fields decode to.
C17_PartialEventIgnored ==
    /\ \A h \in Handlers :
         pc[h] \notin {"idle", "done"} /\ IsParsed(req[h]) /\ IsPartial(req[h])
            => pc[h] = "respond" /\ errRet[h] = "nil"
    /\ Count(0) = 0

\* the note is the keyword, letter by letter, in upper or lower case
IsKeywordIgnoringCase(n) ==
    /\ Len(n) = 4
    /\ n[1] \in {"l", "L"}
    /\ n[2] \in {"g", "G"}
    /\ n[3] \in {"t", "T"}
    /\ n[4] \in {"m", "M"}

\* C18: the note is classified by a case-insensitive exact match.  A comment
\* on a merge request goes on to the counter if and only if its note is the
\* keyword LGTM in some mix of upper and lower case; a note with anything
\* before or after the keyword, white space included, or with the keyword
\* inside a longer text, goes on to the response without being counted.
C18_NoteMatchedExactlyIgnoringCase ==
    [][\A h \in DOMAIN pc :
        pc[h] \in {"idle", "done"} /\ pc'[h] \notin {"idle", "done"} =>
            /\ pc'[h] \in {"lock", "respond"}
            /\ pc'[h] = "lock" <=> IsKeywordIgnoringCase(CommentOf(req'[h]).Note)
            /\ approvals'[42] = approvals[42]
                  + IF IsKeywordIgnoringCase(CommentOf(req'[h]).Note) THEN 1 ELSE 0]_vars

\* "lgtm" has been counted, and "lgtm " with a trailing blank is on its way
\* to the response without having been counted
C18_Witness ==
    /\ Count(42) = 1
    /\ approvals[42] = 1
    /\ pc[1] = "respond"
    /\ CommentOf(req[1]).Note = <<"l", "g", "t", "m", " ">>

\* the merge request handler h has sent: its path and its body
MergeRequestOf(h) == [path |-> reqURL[h], body |-> reqBody[h]]

\* C19: the merge request does not depend on force_remove_source_branch.
\* Events that differ in that flag only send the same merge request, and
\* its body carries should_remove_source_branch with the string "true",
\* whatever the flag of the event is.
C19_MergeRequestIgnoresFlag ==
    /\ \A h \in Handlers :
         pc[h] = "waiting" =>
            MergeRequestOf(h) = [path |-> MergePath(7, 42),
                                 body |-> [should_remove_source_branch |-> "true"]]
    /\ \A h, o \in Handlers :
         pc[h] = "waiting" /\ pc[o] = "waiting" => MergeRequestOf(h) = MergeRequestOf(o)

\* the merge calls of two events are pending, one of an event with the flag
\* set and one of an event without it
C19_Witness ==
    \E h, o \in Handlers :
        /\ pc[h] = "waiting" /\ pc[o] = "waiting"
        /\ Cmt(h).ForceRemoveSourceBranch
        /\ ~Cmt(o).ForceRemoveSourceBranch
        /\ Restrict(req[h].obj, Fields \ {"force_remove_source_branch"})
             = Restrict(req[o].obj, Fields \ {"force_remove_source_branch"})

\* C20: counting is independent of mergeability and a merge is decided only
\* while an event is handled.  Every qualifying event raises the counter of
\* its target by 1 whatever its merge_status is.  An event that is not
\* can_be_merged sends no merge call, even when its own count is 2 or more;
\* a can_be_merged event that finds the count at 2 or more, and so stores 3
\* or more, goes straight on to the merge call.  The number of merge calls of a
\* target changes only when the handler of a can_be_merged event of that
\* target, counted 2 or more, sends its request: apart from the handling of
\* such an event no merge call is ever sent.
C20_CountsAnyStatusMergesOnlyOnEvent ==
    [][/\ \A h \in Handlers :
            pc[h] = "write" /\ pc'[h] = "unlock" =>
                Count(Cmt(h).ID)' = Count(Cmt(h).ID) + 1
       /\ \A h \in Handlers :
            pc[h] = "log146" /\ pc'[h] # "log146" =>
                /\ Cmt(h).MergeStatus # "can_be_merged" => pc'[h] = "respond"
                /\ Cmt(h).MergeStatus = "can_be_merged" /\ newCount[h] > 2
                      => pc'[h] = "accept"
       /\ \A id \in AllIDs :
            mergeCalls'[id] # mergeCalls[id] =>
                \E h \in Handlers :
                    /\ pc[h] = "newRequest" /\ pc'[h] = "waiting"
                    /\ Cmt(h).ID = id
                    /\ Cmt(h).MergeStatus = "can_be_merged"
                    /\ Count(id) >= 2
                    /\ mergeCalls'[id] = mergeCalls[id] + 1]_vars

\* the count of merge request 42 reached 2 through events of which the
\* second was not can_be_merged, and no merge call was sent; a third event,
\* can_be_merged, has been counted as 3 and is about to send the merge call
C20_Witness ==
    \E h \in Handlers :
        /\ pc[h] = "log146" /\ newCount[h] = 3
        /\ Cmt(h).MergeStatus = "can_be_merged"
        /\ mergeCalls[42] = 0
        /\ \A o \in Handlers \ {h} : pc[o] \in {"idle", "done"}

TypeOK ==
    /\ mutex \in DOMAIN pc \cup {0}
    /\ DOMAIN lgtmCount \subseteq AllIDs
    /\ received \in 0..MaxEvents

====
